---- MODULE Spec2Model ----
(***************************************************************************)
(* LC-3 virtual machine of lc3-rust: the instruction decoder               *)
(* (lc3_vm/opcodes.rs), the execution engine and the program loader        *)
(* (lc3_vm/virtual_machine.rs), the condition flags (lc3_vm/flags.rs) and  *)
(* the run loop of main (main.rs).                                         *)
(*                                                                         *)
(* The VM struct is the record vm: memory, r (R0..R7), pc, cond, running.  *)
(* memory is the 65536-word array kept sparsely: a function from the       *)
(* addresses that hold a non-zero word to that word; every other address   *)
(* holds 0, as in the zero-initialised array.                              *)
(***************************************************************************)
EXTENDS Naturals, Sequences, FiniteSets

\* vm: the VM struct; phase: where main is; file: the file main was given;
\* last: the latest next_instruction call (where the instruction was, the
\* word, its decoded form, how the call ended, the machine before it, and
\* in prev the record of the call before);
\* steps: the number of next_instruction calls made; termios: the settings
\* of the terminal on stdin.
VARIABLES vm, phase, file, last, steps, termios

vars == <<vm, phase, file, last, steps, termios>>

\* ------------------------------------------------------------ bounds
\* Longest payload (in words) of the enumerated program images.
MaxImageWords == 2

\* Most next_instruction calls the run loop is followed for.
MaxSteps == 4

\* ------------------------------------------------------ u16 arithmetic
MEMORY_MAX == 65536

\* 2^16: the number of values of a u16.
U16 == 2 ^ 16

wrapping_add(a, b) == (a + b) % U16

RECURSIVE BitAnd(_, _)
BitAnd(a, b) ==
    IF a = 0 \/ b = 0 THEN 0
    ELSE (a % 2) * (b % 2) + 2 * BitAnd(a \div 2, b \div 2)

RECURSIVE BitOr(_, _)
BitOr(a, b) ==
    IF a = 0 THEN b
    ELSE IF b = 0 THEN a
    ELSE (IF a % 2 = 1 \/ b % 2 = 1 THEN 1 ELSE 0) + 2 * BitOr(a \div 2, b \div 2)

\* !x on a u16
BitNot(a) == (U16 - 1) - a

Shr(a, n) == a \div (2 ^ n)

\* ------------------------------------------------------------ results
Ok(v) == [ok |-> TRUE, val |-> v]

Err(e) == [ok |-> FALSE, err |-> e]

\* ------------------------------------------------------ sign extension
sign_extend_5_bits(num) ==
    IF Shr(num, 4) = 1 THEN BitOr(num, \hFFE0) ELSE num

sign_extend_6_bits(num) ==
    IF Shr(num, 5) = 1 THEN BitOr(num, \hFFC0) ELSE num

\* sign_extend_9_bits with a mask that leaves bit 9 clear.
sign_extend_9_bits_short(num) ==
    IF Shr(num, 8) = 1 THEN BitOr(num, \hFC00) ELSE num

sign_extend_9_bits(num) ==
    IF Shr(num, 8) = 1 THEN BitOr(num, \hFE00) ELSE num

sign_extend_11_bits(num) ==
    IF Shr(num, 10) = 1 THEN BitOr(num, \hF800) ELSE num

\* ------------------------------------------------------------- flags
POS == 0

ZRO == 2

NEG == 4

\* -------------------------------------------------------------- traps
\* Trap::try_from: the vectors with a service routine.
Trap_try_from(value) ==
    CASE value = \h20 -> Ok("GetC")
      [] value = \h21 -> Ok("Out")
      [] value = \h22 -> Ok("Puts")
      [] value = \h23 -> Ok("In")
      [] value = \h24 -> Ok("Putsp")
      [] value = \h25 -> Ok("Halt")
      [] OTHER -> Err("InvalidTrap")

\* ------------------------------------------------------------- decode
\* The conversion of a decoded field failing above 7.
try_into_u3(x) == IF x <= 7 THEN Ok(x) ELSE Err("InvalidOpcode")

\* u16 -> u8 conversion of a decoded field (try_into): fails above 255.
try_into_u8(x) == IF x <= 255 THEN Ok(x) ELSE Err("InvalidOpcode")

\* The register field of bits 11..9 taken one bit too high.
field_11_9_high(instruction) == Shr(BitAnd(instruction, \h1C00), 10)

\* (instruction & 0b0000_1110_0000_0000) >> 9: the dr / sr field.
field_11_9(instruction) == Shr(BitAnd(instruction, \h0E00), 9)

\* Opcode::try_from: the decoded instruction, or InvalidOpcode.
Opcode_try_from(instruction) ==
    LET sel == Shr(instruction, 12)
        f11_9 == field_11_9(instruction)
        f8_6 == Shr(BitAnd(instruction, \h01C0), 6)
        off9 == BitAnd(instruction, \h01FF)
        off6 == BitAnd(instruction, \h003F)
        low5 == BitAnd(instruction, \h001F)
        bit5 == Shr(BitAnd(instruction, \h0020), 5) = 1
        fits(fields) == \A i \in 1..Len(fields) : try_into_u8(fields[i]).ok
    IN  CASE sel = 0 ->
               Ok([op |-> "BR",
                   n |-> Shr(BitAnd(instruction, \h0800), 11) = 1,
                   z |-> Shr(BitAnd(instruction, \h0400), 10) = 1,
                   p |-> Shr(BitAnd(instruction, \h0200), 9) = 1,
                   offset |-> off9])
          [] sel = 1 ->
               IF fits(<<f11_9, f8_6, low5>>)
               THEN Ok([op |-> "ADD", dr |-> f11_9, sr1 |-> f8_6,
                        mode |-> bit5, sr2 |-> low5])
               ELSE Err("InvalidOpcode")
          [] sel = 2 ->
               IF fits(<<f11_9>>)
               THEN Ok([op |-> "LD", dr |-> f11_9, offset |-> off9])
               ELSE Err("InvalidOpcode")
          [] sel = 3 ->
               IF fits(<<f11_9>>)
               THEN Ok([op |-> "ST", sr |-> f11_9, offset |-> off9])
               ELSE Err("InvalidOpcode")
          [] sel = 4 ->
               Ok([op |-> "JSR",
                   mode |-> Shr(BitAnd(instruction, \h0800), 11) = 1,
                   offset |-> BitAnd(instruction, \h07FF)])
          [] sel = 5 ->
               IF fits(<<f11_9, f8_6, low5>>)
               THEN Ok([op |-> "AND", dr |-> f11_9, sr1 |-> f8_6,
                        mode |-> bit5, sr2 |-> low5])
               ELSE Err("InvalidOpcode")
          [] sel = 6 ->
               IF fits(<<f11_9, f8_6, off6>>)
               THEN Ok([op |-> "LDR", dr |-> f11_9, base_r |-> f8_6,
                        offset |-> off6])
               ELSE Err("InvalidOpcode")
          [] sel = 7 ->
               IF fits(<<f11_9, f8_6, off6>>)
               THEN Ok([op |-> "STR", sr |-> f11_9, base_r |-> f8_6,
                        offset |-> off6])
               ELSE Err("InvalidOpcode")
          [] sel = 8 -> Ok([op |-> "RTI"])
          [] sel = 9 ->
               IF fits(<<f11_9, f8_6>>)
               THEN Ok([op |-> "NOT", dr |-> f11_9, sr |-> f8_6])
               ELSE Err("InvalidOpcode")
          [] sel = 10 ->
               IF fits(<<f11_9>>)
               THEN Ok([op |-> "LDI", dr |-> f11_9, offset |-> off9])
               ELSE Err("InvalidOpcode")
          [] sel = 11 ->
               IF fits(<<f11_9>>)
               THEN Ok([op |-> "STI", sr |-> f11_9, offset |-> off9])
               ELSE Err("InvalidOpcode")
          [] sel = 12 ->
               IF fits(<<f8_6>>)
               THEN Ok([op |-> "JMP", base_r |-> f8_6])
               ELSE Err("InvalidOpcode")
          [] sel = 13 -> Ok([op |-> "RES"])
          [] sel = 14 ->
               IF fits(<<f11_9>>)
               THEN Ok([op |-> "LEA", dr |-> f11_9, offset |-> off9])
               ELSE Err("InvalidOpcode")
          [] sel = 15 ->
               IF fits(<<BitAnd(instruction, \h00FF)>>)
               THEN Ok([op |-> "TRAP", trap_vec |-> BitAnd(instruction, \h00FF)])
               ELSE Err("InvalidOpcode")
          [] OTHER -> Err("InvalidOpcode")

decode(instruction) == Opcode_try_from(instruction)

\* ------------------------------------------------------------- memory
\* The word the array holds at address a.
MemWord(memory, a) == IF a \in DOMAIN memory THEN memory[a] ELSE 0

\* The array with word a set to v.
MemStore(memory, a, v) ==
    IF v = 0
    THEN [x \in DOMAIN memory \ {a} |-> memory[x]]
    ELSE [x \in DOMAIN memory \cup {a} |-> IF x = a THEN v ELSE memory[x]]

\* VM::default
VM_default ==
    [memory |-> [x \in {} |-> 0],
     r |-> [i \in 0..7 |-> 0],
     pc |-> \h3000,
     cond |-> 0,
     running |-> FALSE]

\* VM::read_word: Ok(Some(word)), or Ok(None) (ok = FALSE) outside the array.
read_word(m, address) ==
    IF address < MEMORY_MAX THEN Ok(MemWord(m.memory, address))
    ELSE Err("None")

\* VM::store_word: the machine after the store, or a Memory error.
store_word(m, address, value) ==
    IF address < MEMORY_MAX
    THEN Ok([m EXCEPT !.memory = MemStore(m.memory, address, value)])
    ELSE Err("Memory")

\* ---------------------------------------------------------- registers
\* VM::get_register_value
get_register_value(m, register) ==
    CASE register \in 0..7 -> Ok(m.r[register])
      [] register = 8 -> Ok(m.pc)
      [] register = 9 -> Ok(m.cond)
      [] OTHER -> Err("ReadRegister")

\* VM::get_register, read through the returned reference.
get_register(m, register) ==
    CASE register \in 0..7 -> Ok(m.r[register])
      [] register = 8 -> Ok(m.pc)
      [] register = 9 -> Ok(m.cond)
      [] OTHER -> Err("GetRegister")

\* update_register setting COND from every value written to R0..R7.
update_register_flagged(m, register, value) ==
    CASE register \in 0..7 ->
           Ok([m EXCEPT !.r[register] = value,
                        !.cond = IF value = 0 THEN ZRO
                                 ELSE IF value >= 2 ^ 15 THEN NEG ELSE POS])
      [] register = 8 -> Ok([m EXCEPT !.pc = value])
      [] register = 9 -> Ok([m EXCEPT !.cond = value])
      [] OTHER -> Err("GetRegister")

\* VM::update_register: the machine after the write, or a GetRegister error.
update_register(m, register, value) ==
    CASE register \in 0..7 -> Ok([m EXCEPT !.r[register] = value])
      [] register = 8 -> Ok([m EXCEPT !.pc = value])
      [] register = 9 -> Ok([m EXCEPT !.cond = value])
      [] OTHER -> Err("GetRegister")

\* flag_of testing bit 14 for the sign.
flag_of_bit14(register_value) ==
    IF register_value = 0 THEN ZRO
    ELSE IF Shr(register_value, 14) = 1 THEN NEG
    ELSE POS

\* The flag update_flags chooses for a register value.
flag_of(register_value) ==
    IF register_value = 0 THEN ZRO
    ELSE IF Shr(register_value, 15) = 1 THEN NEG
    ELSE POS

\* update_flags or-ing the new flag into COND.
update_flags_or(m, register) ==
    LET register_value == get_register(m, register)
    IN  IF ~register_value.ok THEN Err("Flags")
        ELSE LET u == update_register(m, 9, BitOr(m.cond, flag_of(register_value.val)))
             IN  IF u.ok THEN u ELSE Err("Flags")

\* VM::update_flags
update_flags(m, register) ==
    LET register_value == get_register(m, register)
    IN  IF ~register_value.ok THEN Err("Flags")
        ELSE LET u == update_register(m, 9, flag_of(register_value.val))
             IN  IF u.ok THEN u ELSE Err("Flags")

get_flags(m) == get_register_value(m, 9)

get_pc(m) == get_register_value(m, 8)

set_pc(m, value) == update_register(m, 8, value)

\* increment_pc with a saturating add.
increment_pc_saturating(m) ==
    [m EXCEPT !.pc = IF m.pc = U16 - 1 THEN m.pc ELSE m.pc + 1]

\* VM::increment_pc
increment_pc(m) == [m EXCEPT !.pc = wrapping_add(m.pc, 1)]

\* add_to_pc taking the offset as an unsigned 8-bit distance.
add_to_pc_forward(m, offset) ==
    [m EXCEPT !.pc = wrapping_add(m.pc, offset % 2 ^ 8)]

\* VM::add_to_pc
add_to_pc(m, offset) == [m EXCEPT !.pc = wrapping_add(m.pc, offset)]

\* ------------------------------------------------------------ execute
\* What a call of execute leaves: the machine as it stands when the call
\* ends, how it ended ("ok": Ok(()), "err": a VMError::Execute, "panic": the
\* thread panicked), and regs, the register indices taken from the
\* instruction's fields that the arm handed to the register accessors.
Done(m, regs) == [vm |-> m, status |-> "ok", regs |-> regs]

Fail(m, regs) == [vm |-> m, status |-> "err", regs |-> regs]

Panic(m, regs) == [vm |-> m, status |-> "panic", regs |-> regs]

\* Store a loaded or computed word into dr, then update the flags from dr:
\* the common tail of the ADD, AND, NOT, LD, LDI, LDR and LEA arms.
write_dr(m, dr, value, regs) ==
    LET u == update_register(m, dr, value)
    IN  IF ~u.ok THEN Fail(m, regs \cup {dr})
        ELSE LET f == update_flags(u.val, dr)
             IN  IF ~f.ok THEN Fail(u.val, regs \cup {dr})
                 ELSE Done(f.val, regs \cup {dr})

\* The BR arm testing the condition bits with a mask.
execute_BR_mask(m, opcode) ==
    LET flags_value == get_flags(m)
        offset == sign_extend_9_bits(opcode.offset)
    IN  IF ~flags_value.ok THEN Fail(m, {})
        ELSE LET m1 == IF opcode.n /\ BitAnd(flags_value.val, NEG) # 0
                       THEN add_to_pc(m, offset) ELSE m
                 m2 == IF opcode.z /\ BitAnd(flags_value.val, ZRO) # 0
                       THEN add_to_pc(m1, offset) ELSE m1
                 m3 == IF opcode.p /\ BitAnd(flags_value.val, POS) # 0
                       THEN add_to_pc(m2, offset) ELSE m2
             IN  Done(m3, {})

\* The BR arm testing p against the flag value 1 (1 << 0).
execute_BR_pos1(m, opcode) ==
    LET flags_value == get_flags(m)
        offset == sign_extend_9_bits(opcode.offset)
    IN  IF ~flags_value.ok THEN Fail(m, {})
        ELSE LET m1 == IF opcode.n /\ flags_value.val = NEG
                       THEN add_to_pc(m, offset) ELSE m
                 m2 == IF opcode.z /\ flags_value.val = ZRO
                       THEN add_to_pc(m1, offset) ELSE m1
                 m3 == IF opcode.p /\ flags_value.val = 1
                       THEN add_to_pc(m2, offset) ELSE m2
             IN  Done(m3, {})

execute_BR(m, opcode) ==
    LET flags_value == get_flags(m)
        offset == sign_extend_9_bits(opcode.offset)
    IN  IF ~flags_value.ok THEN Fail(m, {})
        ELSE LET m1 == IF opcode.n /\ flags_value.val = NEG
                       THEN add_to_pc(m, offset) ELSE m
                 m2 == IF opcode.z /\ flags_value.val = ZRO
                       THEN add_to_pc(m1, offset) ELSE m1
                 m3 == IF opcode.p /\ flags_value.val = POS
                       THEN add_to_pc(m2, offset) ELSE m2
             IN  Done(m3, {})

\* The ADD and AND arms; combine is the wrapping add or the bitwise and.
execute_ADD(m, opcode) ==
    LET source_register_1 == get_register_value(m, opcode.sr1)
        rhs == IF opcode.mode THEN Ok(sign_extend_5_bits(opcode.sr2))
               ELSE get_register_value(m, opcode.sr2)
        read == {opcode.sr1} \cup (IF opcode.mode THEN {} ELSE {opcode.sr2})
    IN  IF ~source_register_1.ok THEN Fail(m, {opcode.sr1})
        ELSE IF ~rhs.ok THEN Fail(m, read)
        ELSE write_dr(m, opcode.dr,
                      wrapping_add(source_register_1.val, rhs.val), read)

execute_AND(m, opcode) ==
    LET source_register_1 == get_register_value(m, opcode.sr1)
        rhs == IF opcode.mode THEN Ok(sign_extend_5_bits(opcode.sr2))
               ELSE get_register_value(m, opcode.sr2)
        read == {opcode.sr1} \cup (IF opcode.mode THEN {} ELSE {opcode.sr2})
    IN  IF ~source_register_1.ok THEN Fail(m, {opcode.sr1})
        ELSE IF ~rhs.ok THEN Fail(m, read)
        ELSE write_dr(m, opcode.dr,
                      BitAnd(source_register_1.val, rhs.val), read)

execute_NOT(m, opcode) ==
    LET source_register == get_register_value(m, opcode.sr)
    IN  IF ~source_register.ok THEN Fail(m, {opcode.sr})
        ELSE write_dr(m, opcode.dr, BitNot(source_register.val), {opcode.sr})

execute_LD(m, opcode) ==
    LET pc_value == get_pc(m)
    IN  IF ~pc_value.ok THEN Fail(m, {})
        ELSE LET address == wrapping_add(pc_value.val,
                                         sign_extend_9_bits(opcode.offset))
                 word == read_word(m, address)
             IN  IF ~word.ok THEN Fail(m, {})
                 ELSE write_dr(m, opcode.dr, word.val, {})

\* The LDI arm dereferencing once.
execute_LDI_direct(m, opcode) ==
    LET pc_value == get_pc(m)
    IN  IF ~pc_value.ok THEN Fail(m, {})
        ELSE LET address_of_address ==
                     wrapping_add(pc_value.val, sign_extend_9_bits(opcode.offset))
                 address == read_word(m, address_of_address)
             IN  IF ~address.ok THEN Fail(m, {})
                 ELSE write_dr(m, opcode.dr, address.val, {})

execute_LDI(m, opcode) ==
    LET pc_value == get_pc(m)
    IN  IF ~pc_value.ok THEN Fail(m, {})
        ELSE LET address_of_address ==
                     wrapping_add(pc_value.val, sign_extend_9_bits(opcode.offset))
                 address == read_word(m, address_of_address)
             IN  IF ~address.ok THEN Fail(m, {})
                 ELSE LET word == read_word(m, address.val)
                      IN  IF ~word.ok THEN Fail(m, {})
                          ELSE write_dr(m, opcode.dr, word.val, {})

\* The LDR arm adding the offset without sign extension.
execute_LDR_unsigned(m, opcode) ==
    LET base_register_value == get_register(m, opcode.base_r)
    IN  IF ~base_register_value.ok THEN Fail(m, {opcode.base_r})
        ELSE LET address == wrapping_add(base_register_value.val, opcode.offset)
                 word == read_word(m, address)
             IN  IF ~word.ok THEN Fail(m, {opcode.base_r})
                 ELSE write_dr(m, opcode.dr, word.val, {opcode.base_r})

execute_LDR(m, opcode) ==
    LET base_register_value == get_register(m, opcode.base_r)
    IN  IF ~base_register_value.ok THEN Fail(m, {opcode.base_r})
        ELSE LET address == wrapping_add(base_register_value.val,
                                         sign_extend_6_bits(opcode.offset))
                 word == read_word(m, address)
             IN  IF ~word.ok THEN Fail(m, {opcode.base_r})
                 ELSE write_dr(m, opcode.dr, word.val, {opcode.base_r})

\* The LEA arm storing the PC at the address it computes.
execute_LEA_store(m, opcode) ==
    LET pc_value == get_pc(m)
    IN  IF ~pc_value.ok THEN Fail(m, {})
        ELSE LET address == wrapping_add(pc_value.val,
                                         sign_extend_9_bits(opcode.offset))
                 st == store_word(m, address, pc_value.val)
             IN  IF ~st.ok THEN Fail(m, {})
                 ELSE write_dr(st.val, opcode.dr, address, {})

execute_LEA(m, opcode) ==
    LET pc_value == get_pc(m)
    IN  IF ~pc_value.ok THEN Fail(m, {})
        ELSE write_dr(m, opcode.dr,
                      wrapping_add(pc_value.val, sign_extend_9_bits(opcode.offset)),
                      {})

execute_ST(m, opcode) ==
    LET word == get_register_value(m, opcode.sr)
        pc_value == get_pc(m)
    IN  IF ~word.ok \/ ~pc_value.ok THEN Fail(m, {opcode.sr})
        ELSE LET address == wrapping_add(pc_value.val,
                                         sign_extend_9_bits(opcode.offset))
                 st == store_word(m, address, word.val)
             IN  IF ~st.ok THEN Fail(m, {opcode.sr})
                 ELSE Done(st.val, {opcode.sr})

execute_STI(m, opcode) ==
    LET pc_value == get_pc(m)
    IN  IF ~pc_value.ok THEN Fail(m, {})
        ELSE LET address_of_address ==
                     wrapping_add(pc_value.val, sign_extend_9_bits(opcode.offset))
                 address == read_word(m, address_of_address)
                 word == get_register_value(m, opcode.sr)
             IN  IF ~address.ok THEN Fail(m, {})
                 ELSE IF ~word.ok THEN Fail(m, {opcode.sr})
                 ELSE LET st == store_word(m, address.val, word.val)
                      IN  IF ~st.ok THEN Fail(m, {opcode.sr})
                          ELSE Done(st.val, {opcode.sr})

\* The STR arm adding the offset without sign extension.
execute_STR_unsigned(m, opcode) ==
    LET base_register_value == get_register(m, opcode.base_r)
        word == get_register_value(m, opcode.sr)
    IN  IF ~base_register_value.ok THEN Fail(m, {opcode.base_r})
        ELSE IF ~word.ok THEN Fail(m, {opcode.base_r, opcode.sr})
        ELSE LET address == wrapping_add(base_register_value.val, opcode.offset)
                 st == store_word(m, address, word.val)
             IN  IF ~st.ok THEN Fail(m, {opcode.base_r, opcode.sr})
                 ELSE Done(st.val, {opcode.base_r, opcode.sr})

execute_STR(m, opcode) ==
    LET base_register_value == get_register(m, opcode.base_r)
        word == get_register_value(m, opcode.sr)
    IN  IF ~base_register_value.ok THEN Fail(m, {opcode.base_r})
        ELSE IF ~word.ok THEN Fail(m, {opcode.base_r, opcode.sr})
        ELSE LET address == wrapping_add(base_register_value.val,
                                         sign_extend_6_bits(opcode.offset))
                 st == store_word(m, address, word.val)
             IN  IF ~st.ok THEN Fail(m, {opcode.base_r, opcode.sr})
                 ELSE Done(st.val, {opcode.base_r, opcode.sr})

\* The JMP arm adding the base register to the PC.
execute_JMP_relative(m, opcode) ==
    LET offset == get_register_value(m, opcode.base_r)
    IN  IF ~offset.ok THEN Fail(m, {opcode.base_r})
        ELSE Done(add_to_pc(m, offset.val), {opcode.base_r})

execute_JMP(m, opcode) ==
    LET offset == get_register_value(m, opcode.base_r)
    IN  IF ~offset.ok THEN Fail(m, {opcode.base_r})
        ELSE LET j == set_pc(m, offset.val)
             IN  IF ~j.ok THEN Fail(m, {opcode.base_r})
                 ELSE Done(j.val, {opcode.base_r})

\* The JSR arm: R7 is written first; the base register (the offset field
\* shifted right by 6) is read from the machine R7 was written to.
execute_JSR(m, opcode) ==
    LET pc_value == get_pc(m)
    IN  IF ~pc_value.ok THEN Fail(m, {})
        ELSE LET saved == update_register(m, 7, pc_value.val)
             IN  IF ~saved.ok THEN Fail(m, {})
                 ELSE LET base == Shr(opcode.offset, 6)
                          regs == IF opcode.mode THEN {} ELSE {base}
                          new_pc_value ==
                              IF opcode.mode
                              THEN Ok(wrapping_add(pc_value.val,
                                                   sign_extend_11_bits(opcode.offset)))
                              ELSE get_register_value(saved.val, base)
                      IN  IF ~new_pc_value.ok THEN Fail(saved.val, regs)
                          ELSE LET j == set_pc(saved.val, new_pc_value.val)
                               IN  IF ~j.ok THEN Fail(saved.val, regs)
                                   ELSE Done(j.val, regs)

\* What the process's stdout may be when a line is printed: a stream that
\* takes the write, or one whose write fails (a full device, a pipe whose
\* reader is gone).
Stdouts == {"writable", "failing"}

\* println!: TRUE when the line was written; when the write fails the
\* macro panics.
println(stdout) == stdout = "writable"

\* The RTI and RES arms print "unused" and do nothing else: the call
\* returns Ok(()) with the machine untouched, or panics in println!.
execute_RTI(m, opcode, stdout) ==
    IF println(stdout) THEN Done(m, {}) ELSE Panic(m, {})

execute_RES(m, opcode, stdout) ==
    IF println(stdout) THEN Done(m, {}) ELSE Panic(m, {})

\* The TRAP arm is todo!(): the call panics, whatever the trap vector.
execute_TRAP(m, opcode) == Panic(m, {})

\* VM::execute; stdout is the state of the process's stdout during the call.
execute(m, opcode, stdout) ==
    CASE opcode.op = "BR" -> execute_BR(m, opcode)
      [] opcode.op = "ADD" -> execute_ADD(m, opcode)
      [] opcode.op = "LD" -> execute_LD(m, opcode)
      [] opcode.op = "ST" -> execute_ST(m, opcode)
      [] opcode.op = "JSR" -> execute_JSR(m, opcode)
      [] opcode.op = "AND" -> execute_AND(m, opcode)
      [] opcode.op = "LDR" -> execute_LDR(m, opcode)
      [] opcode.op = "STR" -> execute_STR(m, opcode)
      [] opcode.op = "RTI" -> execute_RTI(m, opcode, stdout)
      [] opcode.op = "NOT" -> execute_NOT(m, opcode)
      [] opcode.op = "LDI" -> execute_LDI(m, opcode)
      [] opcode.op = "STI" -> execute_STI(m, opcode)
      [] opcode.op = "JMP" -> execute_JMP(m, opcode)
      [] opcode.op = "RES" -> execute_RES(m, opcode, stdout)
      [] opcode.op = "LEA" -> execute_LEA(m, opcode)
      [] opcode.op = "TRAP" -> execute_TRAP(m, opcode)

\* The decoded form recorded for a word that was not decoded.
NoOpcode == [op |-> "NONE"]

\* VM::next_instruction: fetch at PC, decode, increment PC, execute.
\* word and opcode record what was fetched and decoded; stdout is the
\* state of the process's stdout during the call.
next_instruction(m, stdout) ==
    LET pc == get_pc(m)
    IN  IF ~pc.ok
        THEN [vm |-> m, status |-> "err", regs |-> {}, word |-> 0,
              opcode |-> NoOpcode]
        ELSE LET instruction == read_word(m, pc.val)
             IN  IF ~instruction.ok
                 THEN [vm |-> m, status |-> "err", regs |-> {}, word |-> 0,
                       opcode |-> NoOpcode]
                 ELSE LET opcode == decode(instruction.val)
                      IN  IF ~opcode.ok
                          THEN [vm |-> m, status |-> "err", regs |-> {},
                                word |-> instruction.val, opcode |-> NoOpcode]
                          ELSE LET e == execute(increment_pc(m), opcode.val, stdout)
                               IN  [vm |-> e.vm, status |-> e.status,
                                    regs |-> e.regs, word |-> instruction.val,
                                    opcode |-> opcode.val]

\* -------------------------------------------------------------- loader
\* join_bytes taking the low byte first.
join_bytes_little_endian(bytes) ==
    IF Len(bytes) < 2 THEN Err("None")
    ELSE Ok(BitOr((bytes[2] * (2 ^ 8)) % U16, bytes[1]))

\* VM::join_bytes: the big-endian u16 of a chunk, None (ok = FALSE) when the
\* chunk has fewer than two bytes.
join_bytes(bytes) ==
    IF Len(bytes) < 1 THEN Err("None")
    ELSE IF Len(bytes) < 2 THEN Err("None")
    ELSE Ok(BitOr((BitOr(0, bytes[1]) * (2 ^ 8)) % U16, bytes[2]))

\* bytes.chunks_exact(2): the full two-byte chunks; a trailing odd byte is
\* the remainder, which load_bytes never looks at.
chunks_exact_2(bytes) ==
    [i \in 1..(Len(bytes) \div 2) |-> <<bytes[2 * i - 1], bytes[2 * i]>>]

\* copy_from_slice into memory[origin .. origin + Len(words))
copy_from_slice(memory, origin, words) ==
    LET range == {a \in origin..(origin + Len(words) - 1) : TRUE}
        word(a) == words[a - origin + 1]
    IN  [a \in (DOMAIN memory \ range) \cup {x \in range : word(x) # 0} |->
            IF a \in range THEN word(a) ELSE memory[a]]

\* What load_bytes returns with a LoadProgram error: val is the machine as
\* the call leaves it.
LoadErr(m) == [ok |-> FALSE, err |-> "LoadProgram", val |-> m]

\* load_bytes copying the words that fit before it reports the overflow.
load_bytes_partial(m, bytes) ==
    LET memory_chunks == chunks_exact_2(bytes)
    IN  IF Len(memory_chunks) = 0 THEN LoadErr(m)
        ELSE LET origin == join_bytes(memory_chunks[1]).val
                 loaded_memory == [i \in 1..(Len(memory_chunks) - 1) |->
                                      join_bytes(memory_chunks[i + 1]).val]
             IN  IF origin + Len(loaded_memory) > U16 - 1
                 THEN LoadErr([m EXCEPT !.memory =
                                  copy_from_slice(m.memory, origin,
                                      SubSeq(loaded_memory, 1, U16 - 1 - origin))])
                 ELSE Ok([m EXCEPT !.memory =
                             copy_from_slice(m.memory, origin, loaded_memory)])

\* VM::load_bytes: Ok with the machine after the load, or a LoadProgram
\* error. Every error return comes before the copy into memory.
load_bytes(m, bytes) ==
    LET memory_chunks == chunks_exact_2(bytes)
    IN  IF Len(memory_chunks) = 0 THEN LoadErr(m)
        ELSE LET origin == join_bytes(memory_chunks[1])
                 joined == [i \in 1..(Len(memory_chunks) - 1) |->
                               join_bytes(memory_chunks[i + 1])]
             IN  IF ~origin.ok THEN LoadErr(m)
                 ELSE IF \E i \in 1..Len(joined) : ~joined[i].ok
                 THEN LoadErr(m)
                 ELSE LET loaded_memory == [i \in 1..Len(joined) |-> joined[i].val]
                          loaded_byte_count == Len(loaded_memory)
                          last_memory_position == origin.val + loaded_byte_count
                      IN  IF loaded_byte_count > U16 - 1 THEN LoadErr(m)
                          ELSE IF last_memory_position > U16 - 1
                          THEN LoadErr(m)
                          ELSE IF last_memory_position > MEMORY_MAX
                          THEN LoadErr(m)
                          ELSE Ok([m EXCEPT !.memory =
                                      copy_from_slice(m.memory, origin.val,
                                                      loaded_memory)])

\* VM::load_program: file is what std::fs::read finds, its bytes or no
\* readable file.
load_program(m, f) ==
    IF ~f.readable THEN LoadErr(m) ELSE load_bytes(m, f.bytes)

\* ------------------------------------------------------ program images
\* The words the enumerated images are made of: instructions of every
\* opcode, with the operand shapes the engine distinguishes, and data.
ProgWords ==
    { \h0000,   \* BR (no condition) +0; the word of untouched memory
      \h0001,   \* BR (no condition) +1; the datum 1
      \h0801,   \* BRn +1
      \h0401,   \* BRz +1
      \h0201,   \* BRp +1
      \h0FFF,   \* BRnzp -1
      \h103F,   \* ADD R0, R0, #-1
      \h1021,   \* ADD R0, R0, #1
      \h1240,   \* ADD R1, R1, R0
      \h1FFF,   \* ADD R7, R7, #-1
      \h1008,   \* ADD R0, R0, register field 8
      \h100A,   \* ADD R0, R0, register field 10
      \h5020,   \* AND R0, R0, #0
      \h5240,   \* AND R1, R1, R0
      \h903F,   \* NOT R0, R0
      \h2000,   \* LD R0, +0
      \h21FF,   \* LD R0, -1
      \hA000,   \* LDI R0, +0
      \h603F,   \* LDR R0, R0, #-1
      \hE000,   \* LEA R0, +0
      \hE1FF,   \* LEA R0, -1
      \h3000,   \* ST R0, +0; the address 0x3000
      \hB000,   \* STI R0, +0
      \h703F,   \* STR R0, R0, #-1
      \hC000,   \* JMP R0
      \hC1C0,   \* JMP R7
      \h4801,   \* JSR +1
      \h4FFF,   \* JSR -1
      \h4000,   \* JSRR R0
      \h41C0,   \* JSRR R7
      \h4200,   \* JSRR, base field 8
      \h4280,   \* JSRR, base field 10
      \h8000,   \* RTI
      \hD000,   \* RES
      \hF025,   \* TRAP HALT
      \hF020,   \* TRAP GETC
      \hFFFF }  \* TRAP 0xFF; the datum 0xFFFF

\* Longer programs: the two test programs' shapes and a subroutine call.
Catalogue ==
    { <<\h103F, \h1261, \h1240>>,          \* add_overflow: R0=-1; R1=1; R1+=R0
      <<\h5020, \h1021, \h0FFE, \hF025>>,  \* clear; increment; branch back
      <<\h4801, \hF025, \h1021, \hC1C0>>,  \* JSR +1; HALT; ADD; JMP R7
      <<\h103F, \h703F, \h623F>> }         \* R0=-1; STR R0,R0,#-1; LDR R1,R0,#-1

WordSeqs == UNION {[1..k -> ProgWords] : k \in 0..MaxImageWords} \cup Catalogue

\* Where the images are loaded: the PC's start, and the top of memory.
Origins == {\h3000, \hFFFE, \hFFFF}

\* The words of the images loaded at every origin and as odd-length files.
EdgeWords == {\h0000, \h1021, \hFFFF}

EdgeSeqs == UNION {[1..k -> EdgeWords] : k \in 0..MaxImageWords}

\* The big-endian bytes of a word sequence.
RECURSIVE to_bytes(_)
to_bytes(words) ==
    IF words = <<>> THEN <<>>
    ELSE <<Head(words) \div 256, Head(words) % 256>> \o to_bytes(Tail(words))

\* The file main is given before it is given one.
NoFile == [readable |-> FALSE, bytes |-> <<>>]

\* The files main may be given: none readable, an empty one, a single byte,
\* every program image at 0x3000, and the images of EdgeWords at every
\* origin, whole or with one trailing byte.
Files ==
    {NoFile}
    \cup {[readable |-> TRUE, bytes |-> b] : b \in {<<>>, <<\h30>>}}
    \cup {[readable |-> TRUE, bytes |-> to_bytes(<<\h3000>> \o w)] :
             w \in WordSeqs}
    \cup {[readable |-> TRUE, bytes |-> to_bytes(<<o>> \o w) \o t] :
             o \in Origins, w \in EdgeSeqs, t \in {<<>>, <<\hAB>>}}

\* ---------------------------------------------------------- the program
\* The record of the latest next_instruction call before any was made.
NoStep ==
    [status |-> "none", a |-> 0, word |-> 0, opcode |-> NoOpcode,
     regs |-> {}, pre |-> VM_default]

\* main: tcgetattr(stdin_fd) on a terminal in its usual line mode.
original_termios == [echo |-> TRUE, icanon |-> TRUE]

\* disable_input_buffering: the settings it puts on the terminal, ECHO
\* and ICANON toggled (it returns the settings it was given).
disable_input_buffering(t) ==
    [t EXCEPT !.echo = ~t.echo, !.icanon = ~t.icanon]

\* restore_input_buffering: the settings it puts on the terminal.
restore_input_buffering(original) == original

\* main after disable_input_buffering and VM::default().
Init ==
    /\ vm = VM_default
    /\ phase = "start"
    /\ file = NoFile
    /\ last = NoStep
    /\ steps = 0
    /\ termios = disable_input_buffering(original_termios)

\* main: vm.load_program(&file_name)?
LoadProgram ==
    /\ phase = "start"
    /\ \E f \in Files :
          LET res == load_program(vm, f)
          IN  /\ file' = f
              /\ vm' = res.val
              /\ phase' = IF res.ok THEN "loaded" ELSE "load_failed"
    /\ UNCHANGED <<last, steps, termios>>

\* main: vm.running = true
StartRun ==
    /\ phase = "loaded"
    /\ vm' = [vm EXCEPT !.running = TRUE]
    /\ phase' = "running"
    /\ UNCHANGED <<file, last, steps, termios>>

\* The run loop going on to the next call after a call returned an error.
after_next_instruction_retry(res) ==
    CASE res.status = "ok" /\ ~res.vm.running -> "exited"
      [] res.status = "ok" /\ res.vm.running -> "running"
      [] res.status = "err" -> "running"
      [] res.status = "panic" -> "panicked"

\* Where main is after vm.next_instruction()? in the loop: an error ends
\* main ("failed"), a panic ends the process ("panicked"), and when the
\* call leaves running false the loop is left ("exited").
after_next_instruction(res) ==
    CASE res.status = "ok" /\ ~res.vm.running -> "exited"
      [] res.status = "ok" /\ res.vm.running -> "running"
      [] res.status = "err" -> "failed"
      [] res.status = "panic" -> "panicked"

\* main: while vm.running { vm.next_instruction()?; }
\* Neither an error nor a panic reaches the statements after the loop.
\* When the loop is left, restore_input_buffering puts the original
\* settings back and main returns Ok.
Step(limit) ==
    /\ phase = "running"
    /\ vm.running
    /\ steps < limit
    /\ \E stdout \in Stdouts :
          LET res == next_instruction(vm, stdout)
              leaves == after_next_instruction(res) = "exited"
          IN  /\ vm' = res.vm
              /\ phase' = after_next_instruction(res)
              /\ termios' = IF leaves
                            THEN restore_input_buffering(original_termios)
                            ELSE termios
              /\ last' = [status |-> res.status, a |-> vm.pc, word |-> res.word,
                          opcode |-> res.opcode, regs |-> res.regs, pre |-> vm,
                          prev |-> last]
    /\ steps' = steps + 1
    /\ UNCHANGED file

NextInstruction == Step(MaxSteps)

Next == LoadProgram \/ StartRun \/ NextInstruction

Spec == Init /\ [][Next]_vars

\* ------------------------------------------------------------- claims
\* The value of a w-bit two's-complement field as a 16-bit word.
\* ------------------------------------------- decoder, word by word
\* The decoder and the sign-extension functions applied to one 16-bit
\* word: `last` holds the word, the result of decode and the result of
\* each sign extension on the word's low W bits.
Words == 0..(U16 - 1)

Widths == {5, 6, 9, 11}

NotDecoded == [ok |-> FALSE, err |-> "NotDecoded"]

NotExtended == [w \in {} |-> 0]

InitDecode ==
    /\ vm = VM_default
    /\ phase = "fetched"
    /\ file = NoFile
    /\ \E w \in Words :
          last = [word |-> w, decoded |-> NotDecoded, sext |-> NotExtended]
    /\ steps = 0
    /\ termios = original_termios

\* VM::decode on the word.
Decode ==
    /\ phase = "fetched"
    /\ last' = [last EXCEPT !.decoded = decode(last.word)]
    /\ phase' = "decoded"
    /\ UNCHANGED <<vm, file, steps, termios>>

\* sign_extend_{5,6,9,11}_bits, each on the word's low W bits.
SignExtend ==
    /\ phase = "fetched"
    /\ last' = [last EXCEPT !.sext =
                  [w \in Widths |->
                      CASE w = 5 -> sign_extend_5_bits(last.word % 2 ^ 5)
                        [] w = 6 -> sign_extend_6_bits(last.word % 2 ^ 6)
                        [] w = 9 -> sign_extend_9_bits(last.word % 2 ^ 9)
                        [] w = 11 -> sign_extend_11_bits(last.word % 2 ^ 11)]]
    /\ phase' = "extended"
    /\ UNCHANGED <<vm, file, steps, termios>>

\* main on the image that puts the word at 0x3000: VM::default(),
\* load_program, vm.running = true, then the first next_instruction of
\* the loop.
RunWord ==
    /\ phase = "fetched"
    /\ \E stdout \in Stdouts :
          LET f == [readable |-> TRUE, bytes |-> to_bytes(<<\h3000, last.word>>)]
              loaded == [load_program(VM_default, f).val EXCEPT !.running = TRUE]
              res == next_instruction(loaded, stdout)
          IN  /\ file' = f
              /\ vm' = res.vm
              /\ phase' = after_next_instruction(res)
              /\ last' = [status |-> res.status, a |-> loaded.pc,
                          word |-> res.word, opcode |-> res.opcode,
                          regs |-> res.regs, pre |-> loaded, prev |-> NoStep]
    /\ steps' = steps + 1
    /\ UNCHANGED termios

NextDecode == Decode \/ SignExtend \/ RunWord

SpecDecode == InitDecode /\ [][NextDecode]_vars

\* ------------------------------------------- the for-loop program
\* The loop of test::for_loop runs ten times.
LoopIterations == 10

\* test::for_loop: one next_instruction, then three per iteration.
LoopSteps == 1 + 3 * LoopIterations

\* The image of for_loop.obj with counter register c and scratch
\* register t: at 0x3000 AND Rc,Rc,#0; ADD Rc,Rc,#1;
\* ADD Rt,Rc,#-LoopIterations; BRn -3.
ForLoopProgram(c, t) ==
    << \h5020 + c * 2 ^ 9 + c * 2 ^ 6,
       \h1021 + c * 2 ^ 9 + c * 2 ^ 6,
       \h1020 + t * 2 ^ 9 + c * 2 ^ 6 + (2 ^ 5 - LoopIterations),
       \h09FD >>

ForLoopFiles ==
    { [readable |-> TRUE,
       bytes |-> to_bytes(<<\h3000>> \o ForLoopProgram(ct[1], ct[2]))] :
        ct \in { p \in (0..7) \X (0..7) : p[1] # p[2] } }

\* test::for_loop: VM::default(); the test does not touch the terminal.
InitForLoop ==
    /\ vm = VM_default
    /\ phase = "start"
    /\ file = NoFile
    /\ last = NoStep
    /\ steps = 0
    /\ termios = original_termios

\* test::for_loop: vm.load_program("./test-programs/for_loop.obj")?
LoadForLoop ==
    /\ phase = "start"
    /\ \E f \in ForLoopFiles :
          LET res == load_program(vm, f)
          IN  /\ file' = f
              /\ vm' = res.val
              /\ phase' = IF res.ok THEN "loaded" ELSE "load_failed"
    /\ UNCHANGED <<last, steps, termios>>

\* test::for_loop: each of its LoopSteps calls vm.next_instruction()?, made
\* on the loaded machine as it is (running stays false); an error returns
\* from the test ("failed"), a panic ends it ("panicked").
LoopInstruction ==
    /\ phase = "loaded"
    /\ steps < LoopSteps
    /\ \E stdout \in Stdouts :
          LET res == next_instruction(vm, stdout)
          IN  /\ vm' = res.vm
              /\ phase' = CASE res.status = "ok" -> "loaded"
                            [] res.status = "err" -> "failed"
                            [] res.status = "panic" -> "panicked"
              /\ last' = [status |-> res.status, a |-> vm.pc, word |-> res.word,
                          opcode |-> res.opcode, regs |-> res.regs, pre |-> vm,
                          prev |-> last]
    /\ steps' = steps + 1
    /\ UNCHANGED <<file, termios>>

NextLoop == LoadForLoop \/ LoopInstruction

SpecLoop == InitForLoop /\ [][NextLoop]_vars

\* ------------------------------------------------------------ claims
SExt(w, x) == IF x >= 2 ^ (w - 1) THEN x + U16 - 2 ^ w ELSE x

\* The flag that stands for the sign of a 16-bit word.
FlagFor(v) == IF v >= 2 ^ 15 THEN NEG ELSE IF v = 0 THEN ZRO ELSE POS

\* The number of bits set in a word.
RECURSIVE BitCount(_)
BitCount(x) == IF x = 0 THEN 0 ELSE (x % 2) + BitCount(x \div 2)

FlagSetting == {"ADD", "AND", "NOT", "LD", "LDI", "LDR", "LEA"}

PcRelative == {"LD", "ST", "LDI", "STI", "LEA", "BR"}

\* The latest step: whether there was one, its opcode, where the
\* instruction was, and the PC after the increment.
Stepped == last.status # "none"

Op == last.opcode.op

PostPc == (last.a + 1) % U16

\* The effective address of a 9-bit PC-relative instruction at last.a.
Ea9 == (last.a + 1 + SExt(9, last.opcode.offset)) % U16

\* Whether the latest step's BR had its condition met by COND before it.
BrTaken ==
    \/ last.opcode.n /\ last.pre.cond = NEG
    \/ last.opcode.z /\ last.pre.cond = ZRO
    \/ last.opcode.p /\ last.pre.cond = POS

\* C1: after a step that executed ADD, AND, NOT, LD, LDI, LDR or LEA, COND
\* is NEGATIVE if bit 15 of the destination register's new value is set,
\* ZERO if the value is 0, POSITIVE otherwise.
C1_FlagsFollowWrittenValue ==
    (last.status = "ok" /\ Op \in FlagSetting) =>
        vm.cond = FlagFor(vm.r[last.opcode.dr])

\* A flag-setting step wrote a negative value and left COND = NEGATIVE.
C1_Witness ==
    /\ last.status = "ok"
    /\ Op \in FlagSetting
    /\ vm.r[last.opcode.dr] >= 2 ^ 15
    /\ vm.cond = NEG

\* C2: in every state COND is one of NEGATIVE, ZERO, POSITIVE, the three
\* encoded as distinct values with at most one bit set each.
C2_CondIsOneFlag ==
    /\ vm.cond \in {NEG, ZRO, POS}
    /\ Cardinality({NEG, ZRO, POS}) = 3
    /\ \A f \in {NEG, ZRO, POS} : BitCount(f) <= 1

\* COND went from NEGATIVE to ZERO in a step.
C2_Witness ==
    /\ last.status = "ok"
    /\ last.pre.cond = NEG
    /\ vm.cond = ZRO

\* C3: a step that executes TRAP 0x25 (HALT) returns without error and
\* leaves running = FALSE.
C3_HaltClearsRunning ==
    (Stepped /\ Op = "TRAP" /\ last.opcode.trap_vec = \h25) =>
        (last.status = "ok" /\ ~vm.running)

\* C4: every register index a step takes from the instruction's fields and
\* hands to the register file is in 0..7.
C4_RegisterIndicesInRange ==
    Stepped => \A i \in last.regs : i \in 0..7

\* C5: a step that returns an error leaves R0..R7, COND and memory as they
\* were before the step.
C5_ErrorLeavesStateUntouched ==
    last.status = "err" =>
        /\ vm.r = last.pre.r
        /\ vm.cond = last.pre.cond
        /\ vm.memory = last.pre.memory

\* C6: JSR leaves the post-increment PC in R7 and sets PC to post-increment
\* PC + the sign-extended 11-bit offset (mode 1) or to the value the base
\* register R0..R7 held when the instruction started (mode 0).
C6_JsrLinksThenJumps ==
    (Stepped /\ Op = "JSR"
       /\ (last.opcode.mode \/ Shr(last.opcode.offset, 6) \in 0..7)) =>
        /\ last.status = "ok"
        /\ vm.r[7] = PostPc
        /\ vm.pc = IF last.opcode.mode
                   THEN (PostPc + SExt(11, last.opcode.offset)) % U16
                   ELSE last.pre.r[Shr(last.opcode.offset, 6)]

\* C7: a step fetches the word at PC and advances PC by 1 modulo 2^16
\* before executing: LD, ST, LDI, STI, LEA, BR and JSR (mode 1) at address a
\* never fail and use the address (a + 1 + sign-extended offset) mod 2^16,
\* and a step at 0xFFFF that does not jump leaves PC = 0.
C7_OffsetsFromIncrementedPc ==
    Stepped =>
        /\ last.word = MemWord(last.pre.memory, last.a)
        /\ Op \in PcRelative \/ (Op = "JSR" /\ last.opcode.mode) =>
               last.status = "ok"
        /\ Op = "LD" => vm.r[last.opcode.dr] = MemWord(last.pre.memory, Ea9)
        /\ Op = "LEA" => vm.r[last.opcode.dr] = Ea9
        /\ Op = "ST" => MemWord(vm.memory, Ea9) = last.pre.r[last.opcode.sr]
        /\ Op = "LDI" =>
               vm.r[last.opcode.dr] =
                   MemWord(last.pre.memory, MemWord(last.pre.memory, Ea9))
        /\ Op = "STI" =>
               MemWord(vm.memory, MemWord(last.pre.memory, Ea9)) =
                   last.pre.r[last.opcode.sr]
        /\ Op = "BR" => vm.pc = IF BrTaken THEN Ea9 ELSE PostPc
        /\ (Op = "JSR" /\ last.opcode.mode) =>
               vm.pc = (last.a + 1 + SExt(11, last.opcode.offset)) % U16
        /\ (Op \in (PcRelative \ {"BR"}) \cup {"ADD", "AND", "NOT", "LDR", "STR",
                                              "RTI", "RES", "TRAP"}) =>
               vm.pc = PostPc
        /\ (last.a = U16 - 1 /\ Op \notin {"JMP", "JSR"}
              /\ ~(Op = "BR" /\ BrTaken)) => vm.pc = 0

\* A step at 0xFFFF returned without error and left PC = 0.
C7_Witness ==
    /\ last.status = "ok"
    /\ last.a = U16 - 1
    /\ vm.pc = 0

\* C8: BR adds the sign-extended 9-bit offset to the post-increment PC once
\* if (n and COND = NEGATIVE) or (z and COND = ZERO) or (p and COND =
\* POSITIVE), else leaves PC at the post-increment value; R0..R7, COND and
\* memory are unchanged either way.
C8_BranchAddsOffsetOnce ==
    (Stepped /\ Op = "BR") =>
        /\ last.status = "ok"
        /\ vm.pc = IF BrTaken THEN Ea9 ELSE PostPc
        /\ vm.r = last.pre.r
        /\ vm.cond = last.pre.cond
        /\ vm.memory = last.pre.memory

\* A BR with n, z and p all set and a non-zero offset was taken with
\* COND = NEGATIVE.
C8_Witness ==
    /\ last.status = "ok"
    /\ Op = "BR"
    /\ last.opcode.n /\ last.opcode.z /\ last.opcode.p
    /\ last.opcode.offset # 0
    /\ last.pre.cond = NEG
    /\ vm.pc = Ea9

\* C9: ADD and AND never fail: the destination receives (src1 + operand2)
\* mod 2^16 (ADD) or src1 AND operand2 (AND), operand2 being the value of
\* source register 2 (bits 2..0) when the mode bit is 0 and the sign-extended
\* 5-bit immediate when it is 1; COND follows the result.
C9_AddAndWrap ==
    (Stepped /\ Op \in {"ADD", "AND"}) =>
        LET src1 == last.pre.r[last.opcode.sr1]
            operand2 == IF last.opcode.mode THEN SExt(5, last.opcode.sr2)
                        ELSE last.pre.r[last.word % 8]
            result == IF Op = "ADD" THEN (src1 + operand2) % U16
                      ELSE BitAnd(src1, operand2)
        IN  /\ last.status = "ok"
            /\ vm.r[last.opcode.dr] = result
            /\ vm.cond = FlagFor(result)

\* C10: LDI leaves in the destination register the word V at address P,
\* where P is the word at (post-increment PC + sign-extended offset), and
\* sets COND from V.
C10_LdiDereferencesTwice ==
    (Stepped /\ Op = "LDI") =>
        LET P == MemWord(last.pre.memory, Ea9)
            V == MemWord(last.pre.memory, P)
        IN  /\ last.status = "ok"
            /\ vm.r[last.opcode.dr] = V
            /\ vm.cond = FlagFor(V)

\* An LDI read a pointer to another address and loaded a negative word
\* that differs from the pointer.
C10_Witness ==
    /\ last.status = "ok"
    /\ Op = "LDI"
    /\ MemWord(last.pre.memory, Ea9) # Ea9
    /\ vm.r[last.opcode.dr] # MemWord(last.pre.memory, Ea9)
    /\ vm.r[last.opcode.dr] >= 2 ^ 15
    /\ vm.cond = NEG

\* The address a store of the latest step writes: ST's PC-relative
\* address, the pointer STI finds there, STR's base + offset.
StoreAddress ==
    CASE Op = "ST" -> Ea9
      [] Op = "STI" -> MemWord(last.pre.memory, Ea9)
      [] Op = "STR" ->
            (last.pre.r[last.opcode.base_r] + SExt(6, last.opcode.offset)) % U16

\* C11: ST, STI and STR write the source register's value to the address
\* the matching load reads (modulo 2^16) and change no other memory word,
\* no general register and not COND.
C11_StoresWriteOneWord ==
    (Stepped /\ Op \in {"ST", "STI", "STR"}) =>
        /\ last.status = "ok"
        /\ \A x \in DOMAIN vm.memory \cup DOMAIN last.pre.memory \cup {StoreAddress} :
               MemWord(vm.memory, x) =
                   IF x = StoreAddress THEN last.pre.r[last.opcode.sr]
                   ELSE MemWord(last.pre.memory, x)
        /\ vm.r = last.pre.r
        /\ vm.cond = last.pre.cond

\* An STR with a negative offset stored a non-zero word below its base.
C11_Witness ==
    /\ last.status = "ok"
    /\ Op = "STR"
    /\ last.opcode.offset >= 2 ^ 5
    /\ last.pre.r[last.opcode.sr] # 0
    /\ vm.memory # last.pre.memory
    /\ MemWord(vm.memory, StoreAddress) = last.pre.r[last.opcode.sr]

\* C17: a step that executes RTI or RES returns successfully, without
\* panicking, and leaves R0..R7, COND, running and memory unchanged; PC
\* advances by one.
C17_UnusedOpcodesOnlyAdvancePc ==
    (Stepped /\ Op \in {"RTI", "RES"}) =>
        /\ last.status = "ok"
        /\ vm = [last.pre EXCEPT !.pc = PostPc]

\* The file main was given, read as big-endian 16-bit words: the number of
\* whole words, the i-th word, the origin (word 1) and the payload length.
FileWords == Len(file.bytes) \div 2

FileWord(i) == file.bytes[2 * i - 1] * 256 + file.bytes[2 * i]

ImageOrigin == FileWord(1)

ImageLen == FileWords - 1

\* load_program has returned / has returned Ok.
LoadReturned == phase # "start"

LoadSucceeded == phase \notin {"start", "load_failed"}

\* C12: after a successful load memory[origin + i] is word i+1 of the file
\* (big-endian, word 0 the origin) for every i in 0..N-1, and every word
\* outside [origin, origin + N), every register, PC and COND are as before.
C12_LoadPlacesWordsAtOrigin ==
    phase = "loaded" =>
        /\ \A i \in 0..(ImageLen - 1) :
               MemWord(vm.memory, ImageOrigin + i) = FileWord(i + 2)
        /\ \A x \in DOMAIN vm.memory :
               x \in ImageOrigin..(ImageOrigin + ImageLen - 1)
        /\ [vm EXCEPT !.memory = VM_default.memory] = VM_default

\* A load placed two different words, the first with different high and
\* low bytes, at the origin.
C12_Witness ==
    /\ phase = "loaded"
    /\ ImageLen >= 2
    /\ file.bytes[3] # file.bytes[4]
    /\ FileWord(2) # FileWord(3)
    /\ MemWord(vm.memory, ImageOrigin) = FileWord(2)
    /\ MemWord(vm.memory, ImageOrigin + 1) = FileWord(3)

\* C13: loading fails whenever the byte buffer is empty or has an odd
\* length.
C13_EmptyOrOddBufferFails ==
    (LoadReturned /\ file.readable
       /\ (Len(file.bytes) = 0 \/ Len(file.bytes) % 2 = 1)) =>
        phase = "load_failed"

\* C14: for a non-empty even-length buffer with origin and N payload words
\* loading fails exactly when origin + N exceeds 65536.
C14_LoadFailsExactlyOnOverflow ==
    (LoadReturned /\ file.readable
       /\ Len(file.bytes) > 0 /\ Len(file.bytes) % 2 = 0) =>
        (LoadSucceeded <=> ImageOrigin + ImageLen <= MEMORY_MAX)

\* C15: whenever the load returns an error, memory, R0..R7, PC and COND
\* are as before the call: the zeroed machine stays zeroed.
C15_FailedLoadChangesNothing ==
    phase = "load_failed" => vm = VM_default

\* A load of an image with a non-zero first payload word failed because the
\* image does not fit below the top of memory.
C15_Witness ==
    /\ phase = "load_failed"
    /\ file.readable
    /\ ImageLen >= 2
    /\ FileWord(2) # 0
    /\ ImageOrigin + ImageLen > MEMORY_MAX
    /\ vm.memory = VM_default.memory

\* C16: a TRAP whose vector is outside 0x20..0x25 returns an invalid-trap
\* error (not a panic), and the vector-to-trap mapping accepts exactly
\* 0x20..0x25 as GETC, OUT, PUTS, IN, PUTSP, HALT.
C16_InvalidTrapIsAnError ==
    /\ (Stepped /\ Op = "TRAP" /\ last.opcode.trap_vec \notin 32..37) =>
           last.status = "err"
    /\ \A v \in 0..255 : Trap_try_from(v).ok <=> v \in 32..37
    /\ <<Trap_try_from(32).val, Trap_try_from(33).val, Trap_try_from(34).val,
         Trap_try_from(35).val, Trap_try_from(36).val, Trap_try_from(37).val>>
           = <<"GetC", "Out", "Puts", "In", "Putsp", "Halt">>

\* Bits hi..lo of a word, by division.
Bits(w, hi, lo) == (w \div 2 ^ lo) % 2 ^ (hi - lo + 1)

\* The instruction the format table gives for a word: the variant from
\* bits 15..12, register fields from bits 11..9 and 8..6, the mode bit 5
\* (ADD/AND) or 11 (JSR), and the low 5, 6, 9, 11 or 8 bits.
FormatTable(w) ==
    LET name == <<"BR", "ADD", "LD", "ST", "JSR", "AND", "LDR", "STR", "RTI",
                  "NOT", "LDI", "STI", "JMP", "RES", "LEA", "TRAP">>[Bits(w, 15, 12) + 1]
    IN  CASE name = "BR" ->
               [op |-> name, n |-> Bits(w, 11, 11) = 1, z |-> Bits(w, 10, 10) = 1,
                p |-> Bits(w, 9, 9) = 1, offset |-> Bits(w, 8, 0)]
          [] name \in {"ADD", "AND"} ->
               [op |-> name, dr |-> Bits(w, 11, 9), sr1 |-> Bits(w, 8, 6),
                mode |-> Bits(w, 5, 5) = 1, sr2 |-> Bits(w, 4, 0)]
          [] name \in {"LD", "LDI", "LEA"} ->
               [op |-> name, dr |-> Bits(w, 11, 9), offset |-> Bits(w, 8, 0)]
          [] name \in {"ST", "STI"} ->
               [op |-> name, sr |-> Bits(w, 11, 9), offset |-> Bits(w, 8, 0)]
          [] name = "JSR" ->
               [op |-> name, mode |-> Bits(w, 11, 11) = 1, offset |-> Bits(w, 10, 0)]
          [] name = "LDR" ->
               [op |-> name, dr |-> Bits(w, 11, 9), base_r |-> Bits(w, 8, 6),
                offset |-> Bits(w, 5, 0)]
          [] name = "STR" ->
               [op |-> name, sr |-> Bits(w, 11, 9), base_r |-> Bits(w, 8, 6),
                offset |-> Bits(w, 5, 0)]
          [] name = "NOT" ->
               [op |-> name, dr |-> Bits(w, 11, 9), sr |-> Bits(w, 8, 6)]
          [] name = "JMP" -> [op |-> name, base_r |-> Bits(w, 8, 6)]
          [] name = "TRAP" -> [op |-> name, trap_vec |-> Bits(w, 7, 0)]
          [] OTHER -> [op |-> name]

\* C18: for every 16-bit word decode succeeds with the variant of the top
\* four bits and every field taken from its fixed bit positions; the word
\* 0b0001_0010_1000_0011 is ADD{dr=1, sr1=2, mode=0, sr2=3} and
\* 0b0001_0010_1010_1011 is ADD{dr=1, sr1=2, mode=1, imm=11}.
C18_DecodeExtractsFixedFields ==
    phase = "decoded" =>
        /\ last.decoded = Ok(FormatTable(last.word))
        /\ last.word = \b0001001010000011 =>
               last.decoded.val = [op |-> "ADD", dr |-> 1, sr1 |-> 2,
                                   mode |-> FALSE, sr2 |-> 3]
        /\ last.word = \b0001001010101011 =>
               last.decoded.val = [op |-> "ADD", dr |-> 1, sr1 |-> 2,
                                   mode |-> TRUE, sr2 |-> 11]

\* The immediate-mode example word has been decoded to ADD R1, R2, #11.
C18_Witness ==
    /\ phase = "decoded"
    /\ last.word = \b0001001010101011
    /\ last.decoded.ok
    /\ last.decoded.val.op = "ADD"
    /\ last.decoded.val.dr = 1
    /\ last.decoded.val.sr2 = 11

\* C19: for W in {5, 6, 9, 11} and every W-bit input, sign extension
\* returns the input with every bit above W-1 set when bit W-1 is set and
\* the input unchanged when it is clear: the 16-bit two's complement of the
\* field; 5-bit 0b11111 gives 0xFFFF and 0b00001 gives 0x0001.
C19_SignExtensionIsTwosComplement ==
    phase = "extended" =>
        /\ \A w \in Widths :
              LET x == last.word % 2 ^ w
              IN  /\ last.sext[w] = IF Bits(x, w - 1, w - 1) = 1
                                    THEN x + (U16 - 2 ^ w) ELSE x
                  /\ last.sext[w] = SExt(w, x)
        /\ last.word = \b11111 => last.sext[5] = \hFFFF
        /\ last.word = \b00001 => last.sext[5] = \h0001

\* A 9-bit field with bit 8 set and bit 9 of the word clear has been
\* extended to a word with all of bits 15..9 set.
C19_Witness ==
    /\ phase = "extended"
    /\ Bits(last.word, 9, 8) = 1
    /\ last.sext[9] >= \hFF00
    /\ last.sext[9] % 2 ^ 9 = last.word % 2 ^ 9

\* The counter register of the loaded for-loop program, the address after
\* its branch, and the increments done after a number of steps.
LoopCounter == Bits(MemWord(vm.memory, \h3000), 11, 9)

LoopExit == \h3000 + 4

Increments(n) == (n + 1) \div 3

\* C20: run from the initial state, the program at 0x3000 that clears a
\* register and increments it in a branch-back loop with a 10-iteration
\* exit condition leaves the loop after exactly 10 increments: the load
\* and every call succeed, the register counts the increments while PC
\* stays inside the loop, and the call that leaves the loop, the last of
\* the test, finds the register at 10 and puts PC on the address after
\* the branch.
C20_LoopExitsAfterTenIncrements ==
    phase # "start" =>
        /\ phase = "loaded"
        /\ ~vm.running
        /\ vm.r[LoopCounter] = Increments(steps)
        /\ steps < LoopSteps => vm.pc \in \h3000..(LoopExit - 1)
        /\ steps = LoopSteps =>
               /\ vm.r[LoopCounter] = LoopIterations
               /\ vm.pc = LoopExit
               /\ Op = "BR" /\ ~BrTaken

\* The loop has just been left: the last step was the untaken branch, the
\* step before the tenth increment, and the counter is not R0.
C20_Witness ==
    /\ steps = LoopSteps
    /\ last.status = "ok"
    /\ Op = "BR"
    /\ last.pre.cond = ZRO
    /\ LoopCounter # 0
    /\ vm.r[LoopCounter] = LoopIterations
    /\ vm.pc = LoopExit

\* C21: COND changes only in steps that execute a flag-setting instruction:
\* a step executing BR, ST, STI, STR, JMP, JSR (which writes R7), RTI or
\* RES, and any other step that is not of a flag-setting instruction,
\* leaves COND as it was, so COND stays the flag of the latest
\* flag-setting write.
C21_CondChangesOnlyOnFlagSetting ==
    (Stepped /\ Op \notin FlagSetting) => vm.cond = last.pre.cond

\* A JSR met COND = NEGATIVE, wrote a new value into R7 and left COND.
C21_Witness ==
    /\ last.status = "ok"
    /\ Op = "JSR"
    /\ last.pre.cond = NEG
    /\ vm.r[7] # last.pre.r[7]
    /\ vm.cond = NEG

\* main has returned or the process has ended.
MainEnded == phase \in {"load_failed", "failed", "panicked", "exited"}

\* C22: once input buffering is disabled, the terminal's original settings
\* are restored on every way the run ends: by HALT, by a load error or by
\* a per-cycle error the terminal is back in its original mode when main
\* is over.
C22_TerminalRestoredOnEveryExit ==
    MainEnded => termios = original_termios

\* C23: errors are fatal to the run. When load_program has returned an
\* error, running is false and no instruction has been executed, and
\* nothing happens afterwards; once next_instruction has returned an
\* error main is over and the machine, the step count and the record of
\* the latest call never change again.
C23_ErrorsEndTheRun ==
    /\ [](phase = "load_failed" => ~vm.running /\ steps = 0 /\ last = NoStep)
    /\ [](last.status = "err" => phase = "failed")
    /\ [][(phase = "load_failed" \/ phase = "failed") => (vars' = vars)]_vars
    /\ [][last.status = "err" => (<<vm, steps, last>>' = <<vm, steps, last>>)]_vars

\* The first call of next_instruction returned an error with running
\* still true and steps to spare: the loop was not entered again.
C23_Witness ==
    /\ phase = "failed"
    /\ last.status = "err"
    /\ vm.running
    /\ steps = 1
    /\ steps < MaxSteps

\* The addresses whose word the latest step changed.
ChangedWords ==
    { x \in DOMAIN vm.memory \cup DOMAIN last.pre.memory :
        MemWord(vm.memory, x) # MemWord(last.pre.memory, x) }

\* C24: at run time only ST, STI and STR change memory, and one word at
\* most: a step executing BR, ADD, AND, NOT, LD, LDI, LDR, LEA, JMP, JSR,
\* RTI or RES (or any other instruction that is not a store) leaves all
\* of memory as it was.
C24_OnlyStoresChangeMemory ==
    Stepped =>
        /\ Op \notin {"ST", "STI", "STR"} => vm.memory = last.pre.memory
        /\ Cardinality(ChangedWords) <= 1

\* An LDI read two words of a non-empty memory into a register and left
\* the memory as it was.
C24_Witness ==
    /\ last.status = "ok"
    /\ Op = "LDI"
    /\ last.pre.memory # VM_default.memory
    /\ vm.r # last.pre.r
    /\ vm.memory = last.pre.memory

\* The calls of next_instruction made so far, oldest first.
RECURSIVE History(_)
History(rec) ==
    IF rec.status = "none" THEN <<>> ELSE Append(History(rec.prev), rec)

\* The address a step's LDR or STR used: (base + sext6(off)) mod 2^16.
BaseOffsetAddress(rec) ==
    (rec.pre.r[rec.opcode.base_r] + SExt(6, rec.opcode.offset)) % U16

\* C25: STR then LDR is a round trip: when a successful STR SR,BaseR,off
\* is followed by an LDR DR,BaseR,off with the same base register value and
\* offset, and the store did not overwrite the LDR's own word, the LDR
\* succeeds and leaves DR equal to the stored value and COND set from it;
\* both use the address (base + sext6(off)) mod 2^16.
C25_StrThenLdrRoundTrip ==
    (/\ Stepped /\ Op = "LDR"
     /\ last.prev.status = "ok" /\ last.prev.opcode.op = "STR"
     /\ last.prev.opcode.base_r = last.opcode.base_r
     /\ last.prev.opcode.offset = last.opcode.offset
     /\ last.prev.pre.r[last.prev.opcode.base_r] = last.pre.r[last.opcode.base_r]
     /\ BaseOffsetAddress(last.prev) # last.a) =>
        /\ last.status = "ok"
        /\ BaseOffsetAddress(last) = BaseOffsetAddress(last.prev)
        /\ MemWord(last.pre.memory, BaseOffsetAddress(last))
               = last.prev.pre.r[last.prev.opcode.sr]
        /\ vm.r[last.opcode.dr] = last.prev.pre.r[last.prev.opcode.sr]
        /\ vm.cond = FlagFor(last.prev.pre.r[last.prev.opcode.sr])

\* 0xFFFF was stored from R0 at 0xFFFE (base 0xFFFF, offset -1) and loaded
\* back into another register, COND becoming NEGATIVE.
C25_Witness ==
    /\ last.status = "ok" /\ Op = "LDR"
    /\ last.prev.status = "ok" /\ last.prev.opcode.op = "STR"
    /\ last.prev.opcode.base_r = last.opcode.base_r
    /\ last.prev.opcode.offset = last.opcode.offset
    /\ last.opcode.dr # last.prev.opcode.sr
    /\ last.prev.pre.r[last.prev.opcode.sr] = \hFFFF
    /\ BaseOffsetAddress(last) = \hFFFE
    /\ vm.r[last.opcode.dr] = \hFFFF
    /\ vm.cond = NEG

\* C26: subroutine linkage is a round trip: after a successful JSR (either
\* mode) at address a, as long as R7 keeps the value the JSR left in it, a
\* JMP R7 sets PC to (a + 1) mod 2^16, the address after the JSR; and a
\* JMP changes nothing but PC.
C26_JsrThenJmpR7Returns ==
    LET h == History(last)
        n == Len(h)
    IN  (Stepped /\ Op = "JMP") =>
            /\ last.status = "ok"
            /\ vm = [last.pre EXCEPT !.pc = last.pre.r[last.opcode.base_r]]
            /\ last.opcode.base_r = 7 =>
                   \A k \in 1..(n - 1) :
                       (/\ h[k].status = "ok" /\ h[k].opcode.op = "JSR"
                        /\ \A j \in (k + 1)..n : h[j].pre.r[7] = h[k + 1].pre.r[7]) =>
                           vm.pc = (h[k].a + 1) % U16

\* A JSR at 0x3000 jumped over a word, the subroutine changed R0 and not
\* R7, and its JMP R7 came back to 0x3001.
C26_Witness ==
    LET h == History(last)
    IN  /\ Len(h) = 3
        /\ last.status = "ok" /\ Op = "JMP" /\ last.opcode.base_r = 7
        /\ h[1].status = "ok" /\ h[1].opcode.op = "JSR" /\ h[1].a = \h3000
        /\ h[2].status = "ok" /\ h[2].opcode.op = "ADD"
        /\ h[2].pre.r[7] = last.pre.r[7]
        /\ last.a # \h3001
        /\ vm.pc = \h3001

\* C27: in every reachable state COND is one of the three flag values, the
\* initial COND = 0 included, so a BR with n = z = p = 1 is always taken
\* (PC becomes the incremented PC plus the offset) and a BR with
\* n = z = p = 0 is never taken (PC is the incremented PC).
C27_BrnzpAlwaysBrNever ==
    /\ vm.cond \in {POS, ZRO, NEG}
    /\ (Stepped /\ Op = "BR") =>
           /\ last.status = "ok"
           /\ (last.opcode.n /\ last.opcode.z /\ last.opcode.p) =>
                  BrTaken /\ vm.pc = Ea9
           /\ (~last.opcode.n /\ ~last.opcode.z /\ ~last.opcode.p) =>
                  ~BrTaken /\ vm.pc = PostPc

\* The first instruction of the run, with COND still 0, was a BR with n, z
\* and p set and a non-zero offset, and it was taken.
C27_Witness ==
    /\ steps = 1
    /\ last.status = "ok"
    /\ Op = "BR"
    /\ last.opcode.n /\ last.opcode.z /\ last.opcode.p
    /\ last.opcode.offset # 0
    /\ last.pre.cond = 0
    /\ vm.pc = Ea9
    /\ vm.pc # PostPc

\* The sixteen instruction variants.
Variants ==
    {"BR", "ADD", "LD", "ST", "JSR", "AND", "LDR", "STR", "RTI", "NOT", "LDI",
     "STI", "JMP", "RES", "LEA", "TRAP"}

\* C28: decoding is total: for each of the 65536 words Opcode::try_from
\* returns Ok with one of the sixteen variants, so a call of
\* next_instruction never ends in its fetch or its decode (it fetched the
\* word at PC and decoded it) and has advanced PC when execute is reached:
\* PC is the incremented PC after every call that failed or panicked in
\* execute and after every instruction other than BR, JMP and JSR.
C28_DecodeIsTotal ==
    /\ phase = "decoded" =>
           last.decoded.ok /\ last.decoded.val.op \in Variants
    /\ (phase \in {"running", "failed", "panicked", "exited"}
          /\ last.status # "none") =>
           /\ last.word = MemWord(last.pre.memory, last.a)
           /\ last.opcode = decode(last.word).val
           /\ Op \in Variants
           /\ (last.status # "ok" \/ Op \notin {"BR", "JMP", "JSR"}) =>
                  vm.pc = PostPc

\* A word whose low five bits are not a register (ADD R0, R0, field 10) was
\* decoded and failed in execute, after PC was advanced.
C28_Witness ==
    /\ phase = "failed"
    /\ last.word = \h100A
    /\ Op = "ADD"
    /\ last.status = "err"
    /\ vm.pc = \h3001

====
